---- MODULE Spec2Model ----
(***************************************************************************)
(* Neurosnatch: the Flask coordinator (server.py) with its background EEG  *)
(* collector thread, and the stand-alone analyzer script (eeg.py).         *)
(*                                                                         *)
(* Time is counted in ticks of 0.5 s, so DECISION_LEAD_TIME (0.5 s) is one *)
(* tick and the 1.0 s cap of a receive timeout is two ticks.               *)
(*                                                                         *)
(* A Python float is a pair <<num, den>> standing for num/den, den > 0;    *)
(* <<0, 0>> is not-a-number.  Every comparison with NaN is false, as in    *)
(* IEEE 754.  With the small integers used here two different quotients    *)
(* differ by far more than one ulp, so comparing the exact quotients       *)
(* agrees with comparing the rounded doubles.                              *)
(*                                                                         *)
(* Python's None is the empty sequence <<>>; a present number n is <<n>>.  *)
(***************************************************************************)
EXTENDS Integers, Sequences, FiniteSets, TLC

\* ---------------------------------------------------------------- bounds
MaxThreads == 2
MaxTime == 1
MaxSkew == 1
MaxDur == 2
MaxSamples == 1
MaxVal == 2
MaxLimit == 3

\* ------------------------------------------------------ program constants
DECISION_LEAD_TIME == 1
DEFAULT_EEG_INDEX == 20
ALPHA_INDEX == 20
SCRIPT_DECISION_LEAD_TIME == 1
FRAME_FIELDS == 70
HISTORY_LIMIT == 80
RECV_TIMEOUT_CAP == 2

\* ------------------------------------------------------------- values
None == <<>>
Some(n) == <<n>>
Val(x) == x[1]

NaN == <<0, 0>>
Float(n) == <<n, 1>>
isnan(x) == x[2] = 0

\* alpha_sum += alpha_val
FAdd(a, b) == IF isnan(a) \/ isnan(b) THEN NaN
              ELSE <<a[1] * b[2] + b[1] * a[2], a[2] * b[2]>>

\* sum / n  (n > 0)
FDiv(a, n) == IF isnan(a) THEN NaN ELSE <<a[1], a[2] * n>>

\* a <= b on floats
FLe(a, b) == /\ ~isnan(a)
             /\ ~isnan(b)
             /\ a[1] * b[2] <= b[1] * a[2]

Max(a, b) == IF a >= b THEN a ELSE b
Min(a, b) == IF a <= b THEN a ELSE b

\* a slip: one value too many is kept
LastNAndOne(h, n) == IF Len(h) > n + 1 THEN SubSeq(h, Len(h) - n, Len(h)) ELSE h

\* h[-n:]
LastN(h, n) == IF Len(h) > n THEN SubSeq(h, Len(h) - n + 1, Len(h)) ELSE h

\* ------------------------------------------------------- Sample Decoder
\* A datagram is the list of its comma-separated fields.  A field is the
\* float it parses to, or Garbage when float() raises ValueError.
Garbage == <<>>
Frame(len, field) == [i \in 1..len |-> field]

Frames ==
    {Frame(FRAME_FIELDS, Float(v)) : v \in 1..MaxVal}
        \cup {Frame(FRAME_FIELDS, NaN),
              Frame(FRAME_FIELDS, Garbage),
              Frame(DEFAULT_EEG_INDEX, Float(1))}

\* a device that sends one steady reading, and now and then a short datagram
SteadyFrames == {Frame(FRAME_FIELDS, Float(1)), Frame(DEFAULT_EEG_INDEX, Float(1))}

\* a slip: a field that does not parse counts as 0.0
DecodeGarbageAsZero(parts, index) ==
    IF Len(parts) <= index THEN None
    ELSE IF parts[index + 1] = Garbage THEN Some(Float(0))
    ELSE Some(parts[index + 1])

\* parts = message.split(","); skip when len(parts) <= index or the field
\* does not parse; otherwise the value.  None stands for "skipped".
Decode(parts, index) ==
    IF Len(parts) <= index THEN None
    ELSE IF parts[index + 1] = Garbage THEN None
    ELSE Some(parts[index + 1])

\* ------------------------------------------------------ Timing Reconciler
\* a slip: the clamp is forgotten
CollectTimeUnclamped(duration, already_elapsed, lead) ==
    duration - already_elapsed - lead

\* a slip: min for max
CollectTimeMin(duration, already_elapsed, lead) ==
    Min(duration - already_elapsed - lead, 0)

\* max(duration - already_elapsed - lead, 0)
CollectTime(duration, already_elapsed, lead) ==
    Max(duration - already_elapsed - lead, 0)

\* ------------------------------------------------------- Decision Engine
\* a slip: < for <=, so a tie picks "excited"
ChooseStrict(mean1, mean2) ==
    IF isnan(mean1) /\ isnan(mean2) THEN "calm"
    ELSE IF isnan(mean1) THEN "excited"
    ELSE IF isnan(mean2) THEN "calm"
    ELSE IF FLe(mean1, mean2) /\ ~FLe(mean2, mean1) THEN "calm"
    ELSE "excited"

\* a slip: the both-undefined default is forgotten
ChooseNoDefault(mean1, mean2) ==
    IF isnan(mean1) THEN "excited"
    ELSE IF isnan(mean2) THEN "calm"
    ELSE IF FLe(mean1, mean2) THEN "calm"
    ELSE "excited"

\* server.py: the choice from the two window means
Choose(mean1, mean2) ==
    IF isnan(mean1) /\ isnan(mean2) THEN "calm"
    ELSE IF isnan(mean1) THEN "excited"
    ELSE IF isnan(mean2) THEN "calm"
    ELSE IF FLe(mean1, mean2) THEN "calm"
    ELSE "excited"

\* sum / n if n > 0 else float("nan")
Mean(sum, n) == IF n > 0 THEN FDiv(sum, n) ELSE NaN

\* eeg.py: its own copy of the reconciliation ...
script_collect_time(video_length, already_elapsed, lead) ==
    Max(video_length - already_elapsed - lead, 0)

\* ... and of the choice
script_choose(mean1, mean2) ==
    IF isnan(mean1) /\ isnan(mean2) THEN "calm"
    ELSE IF isnan(mean1) THEN "excited"
    ELSE IF isnan(mean2) THEN "calm"
    ELSE IF FLe(mean1, mean2) THEN "calm"
    ELSE "excited"


\* ------------------------------------------------------------------ state
VARIABLES
    decision,        \* state["decision"]: "none" (None), "calm" or "excited"
    timestamp,       \* state["timestamp"]: None or Some(wall-clock time)
    clips,           \* state["clips"]: the two Clip Event records
    eeg_thread,      \* state["eeg_thread"]: None or Some(thread id)
    eeg_status,      \* state["eeg_status"]
    eeg_index,       \* state["eeg_index"]
    eeg_live,        \* state["eeg_live"]
    thr,             \* the frames of the eeg_thread_main threads created so far
    time_time,       \* time.time(), the wall clock (may be stepped back)
    time_monotonic,  \* time.monotonic()
    response,        \* the last HTTP response: handler and status code
    scr              \* the frame of the eeg.py process

vars == <<decision, timestamp, clips, eeg_thread, eeg_status, eeg_index,
          eeg_live, thr, time_time, time_monotonic, response, scr>>

Threads == 1..MaxThreads

NoClip == [started |-> FALSE, start_time |-> None, duration |-> None]

\* state["eeg_live"].  {} is EmptyLive; what the collector publishes is
\* LiveData(value, history, status); a client may post any JSON, a mapping
\* with or without a "history" list, or something that is no mapping.
EmptyLive == [is_dict |-> TRUE, history |-> None, value |-> None, status |-> "none"]
NotADict == [is_dict |-> FALSE, history |-> None, value |-> None, status |-> "none"]
LiveData(value, history, status) ==
    [is_dict |-> TRUE, history |-> Some(history), value |-> Some(value),
     status |-> status]

\* a thread that was never created, or whose frame is gone after it returned
NoFrame(pc) ==
    [pc |-> pc, collect_time |-> 0, eeg_index |-> 0, t0 |-> 0,
     sum |-> Float(0), count |-> 0, live_history |-> <<>>,
     timeout |-> 0, recv_t0 |-> 0,
     mean1 |-> NaN, n1 |-> 0, mean2 |-> NaN, n2 |-> 0, choice |-> "none"]

\* threading.Thread.is_alive(): started and eeg_thread_main not yet returned
is_alive(t) == thr[t].pc \notin {"unborn", "dead"}

Created == {t \in Threads : thr[t].pc # "unborn"}

\* eeg.py not running, or its locals before they are assigned
NoScript(pc) ==
    [pc |-> pc, video_length |-> None, clip_start |-> None, collect_time |-> 0,
     t0 |-> 0, sum |-> Float(0), count |-> 0, timeout |-> 0, recv_t0 |-> 0,
     mean1 |-> NaN, n1 |-> 0, mean2 |-> NaN, n2 |-> 0, choice |-> "none"]

Init ==
    /\ decision = "none"
    /\ timestamp = None
    /\ clips = [k \in 1..2 |-> NoClip]
    /\ eeg_thread = None
    /\ eeg_status = "idle"
    /\ eeg_index = DEFAULT_EEG_INDEX
    /\ eeg_live = EmptyLive
    /\ thr = [t \in Threads |-> NoFrame("unborn")]
    /\ time_time = 0
    /\ time_monotonic = 0
    /\ response = [op |-> "none", code |-> 0]
    /\ scr = NoScript("off")

\* ------------------------------------------------------------ the clocks
Tick ==
    /\ time_monotonic < MaxTime
    /\ time_monotonic' = time_monotonic + 1
    /\ time_time' = time_time + 1
    /\ UNCHANGED <<decision, timestamp, clips, eeg_thread, eeg_status,
                   eeg_index, eeg_live, thr, response, scr>>

\* the wall clock is set back (NTP step, operator); the monotonic clock is not
ClockStepBack ==
    /\ time_time > 0
    /\ time_monotonic - time_time < MaxSkew
    /\ time_time' = time_time - 1
    /\ UNCHANGED <<decision, timestamp, clips, eeg_thread, eeg_status,
                   eeg_index, eeg_live, thr, time_monotonic, response, scr>>

\* --------------------------------------------------------- HTTP handlers
ClipNums == 0..3
Durations == {Some(d) : d \in 0..MaxDur}
Choices == {"calm", "excited", "CALM", "", "happy"}

\* a slip: the choice is compared as submitted
lower_forgotten(s) == s

\* str.lower() on the submitted choices
lower(s) == IF s = "CALM" THEN "calm" ELSE s

\* The handlers below say what a request does to the session state; the
\* status code of the response is given by the ..._status operators.

\* a slip: clip 0 passes the check
valid_clip_from_zero(clip_num) == clip_num \in {0, 1, 2}

\* if clip_num not in (1, 2): 400
valid_clip(clip_num) == clip_num \in {1, 2}

\* a slip: the liveness check is forgotten
launches_unguarded(clip_num) == clip_num = 1

\* the auto-launch guard: clip 1, and no thread or a thread no longer alive
launches(clip_num) ==
    /\ clip_num = 1
    /\ eeg_thread = None \/ ~is_alive(Val(eeg_thread))

\* POST /api/clip-started
clip_started(clip_num, duration) ==
    IF ~valid_clip(clip_num)
    THEN UNCHANGED <<decision, timestamp, clips, eeg_thread, eeg_status,
                     eeg_index, eeg_live, thr, time_time, time_monotonic>>
    ELSE /\ clips' = [clips EXCEPT ![clip_num] =
                         [started |-> TRUE,
                          start_time |-> Some(time_time),
                          duration |-> duration]]
         /\ IF duration = None
            THEN \* the log line's {duration:.1f} raises TypeError
                 UNCHANGED <<eeg_thread, thr>>
            ELSE IF launches(clip_num)
                 THEN \E t \in Threads :
                         /\ t = Cardinality(Created) + 1
                         /\ eeg_thread' = Some(t)
                         /\ thr' = [thr EXCEPT ![t] = NoFrame("start")]
                 ELSE UNCHANGED <<eeg_thread, thr>>
         /\ UNCHANGED <<decision, timestamp, eeg_status, eeg_index, eeg_live,
                        time_time, time_monotonic>>

\* a slip: an empty choice clears the decision
decide_or_clear(choice) ==
    IF lower(choice) = ""
    THEN /\ decision' = "none"
         /\ timestamp' = None
         /\ UNCHANGED <<clips, eeg_thread, eeg_status, eeg_index, eeg_live, thr,
                        time_time, time_monotonic>>
    ELSE IF lower(choice) \notin {"calm", "excited"}
    THEN UNCHANGED <<decision, timestamp, clips, eeg_thread, eeg_status,
                     eeg_index, eeg_live, thr, time_time, time_monotonic>>
    ELSE /\ decision' = lower(choice)
         /\ timestamp' = Some(time_time)
         /\ UNCHANGED <<clips, eeg_thread, eeg_status, eeg_index, eeg_live, thr,
                        time_time, time_monotonic>>

\* POST /api/decide
decide(choice) ==
    IF lower(choice) \notin {"calm", "excited"}
    THEN UNCHANGED <<decision, timestamp, clips, eeg_thread, eeg_status,
                     eeg_index, eeg_live, thr, time_time, time_monotonic>>
    ELSE /\ decision' = lower(choice)
         /\ timestamp' = Some(time_time)
         /\ UNCHANGED <<clips, eeg_thread, eeg_status, eeg_index, eeg_live, thr,
                        time_time, time_monotonic>>

\* the status code of POST /api/clip-started
clip_started_status(clip_num, duration) ==
    IF ~valid_clip(clip_num) THEN 400
    ELSE IF duration = None THEN 500
    ELSE 200

\* the status code of POST /api/decide
decide_status(choice) ==
    IF lower(choice) \notin {"calm", "excited"} THEN 400 ELSE 200

\* POST /api/eeg-config: the payload index of a band and a channel
BAND_BASES == <<0, 8, 16, 24, 32, 40, 48>>
BAND_AVG_INDICES == <<57, 58, 59, 60, 61, 62, 63>>
Bands == {2, 7}
Channels == {"1", "5", "9", "x"}

\* int(channel): None stands for ValueError
int(s) ==
    CASE s = "1" -> Some(1)
      [] s = "5" -> Some(5)
      [] s = "9" -> Some(9)
      [] OTHER -> None

\* the index the handler computes; None when it answers an error instead
config_index(band, channel) ==
    IF band \notin 0..6 THEN None
    ELSE IF channel = "avg" THEN Some(BAND_AVG_INDICES[band + 1])
    ELSE IF int(channel) = None THEN None
    ELSE IF Val(int(channel)) < 1 \/ Val(int(channel)) > 8 THEN None
    ELSE Some(BAND_BASES[band + 1] + (Val(int(channel)) - 1))

eeg_config(band, channel) ==
    /\ eeg_index' = IF config_index(band, channel) = None THEN eeg_index
                    ELSE Val(config_index(band, channel))
    /\ UNCHANGED <<decision, timestamp, clips, eeg_thread, eeg_status,
                   eeg_live, thr, time_time, time_monotonic>>

\* the status code of POST /api/eeg-config
eeg_config_status(band, channel) ==
    IF band \notin 0..6 THEN 400
    ELSE IF channel = "avg" THEN 200
    ELSE IF int(channel) = None THEN 500
    ELSE IF Val(int(channel)) < 1 \/ Val(int(channel)) > 8 THEN 400
    ELSE 200

\* POST /api/eeg: state["eeg_live"] = data, whatever the body is
eeg_data(data) ==
    /\ eeg_live' = data
    /\ UNCHANGED <<decision, timestamp, clips, eeg_thread, eeg_status,
                   eeg_index, thr, time_time, time_monotonic>>

\* a slip: the live data is not cleared
reset_keeps_live ==
    /\ decision' = "none"
    /\ timestamp' = None
    /\ clips' = [k \in 1..2 |-> NoClip]
    /\ eeg_thread' = None
    /\ eeg_status' = "idle"
    /\ eeg_index' = DEFAULT_EEG_INDEX
    /\ UNCHANGED <<eeg_live, thr, time_time, time_monotonic>>

\* POST /api/reset
reset ==
    /\ decision' = "none"
    /\ timestamp' = None
    /\ clips' = [k \in 1..2 |-> NoClip]
    /\ eeg_thread' = None
    /\ eeg_status' = "idle"
    /\ eeg_index' = DEFAULT_EEG_INDEX
    /\ eeg_live' = EmptyLive
    /\ UNCHANGED <<thr, time_time, time_monotonic>>

\* ------------------------------------------- eeg_thread_main, step by step
\* Steps of thread t leave the clocks, the last response and eeg.py alone.
ThreadFrame ==
    <<time_time, time_monotonic, response, eeg_index, eeg_thread, scr>>

InWindow(pc) == pc \in {"window1", "window2"}
InRecv(pc) == pc \in {"recv1", "recv2"}
WindowPc(pc) == IF pc \in {"window1", "recv1"} THEN "window1" ELSE "window2"
RecvPc(pc) == IF pc \in {"window1", "recv1"} THEN "recv1" ELSE "recv2"

\* state["eeg_status"] = "collecting", then socket(), setsockopt(), bind(),
\* settimeout(), which succeed or raise OSError
SetCollecting(t) ==
    /\ thr[t].pc = "start"
    /\ eeg_status' = "collecting"
    /\ \E ok \in BOOLEAN :
          thr' = [thr EXCEPT ![t].pc = IF ok THEN "clip1" ELSE "except"]
    /\ UNCHANGED <<decision, timestamp, clips>>
    /\ UNCHANGED <<ThreadFrame, eeg_live>>

\* clipN = state["clips"][N]; already_elapsed_N = time.time() - start_time;
\* collect_time_N = max(duration - already_elapsed_N [- lead], 0); then the
\* entry of collect_alpha_for_duration: eeg_index, sum, count, t0 and the
\* copy of the published live history.
\* A record without start time or duration raises TypeError.
ReadClip(t, n, lead) ==
    /\ thr[t].pc = IF n = 1 THEN "clip1" ELSE "clip2"
    /\ LET clip == clips[n] IN
       IF clip.start_time = None \/ clip.duration = None
       THEN thr' = [thr EXCEPT ![t].pc = "except"]
       ELSE IF ~eeg_live.is_dict
       THEN \* state["eeg_live"].get raises AttributeError
            thr' = [thr EXCEPT ![t].pc = "except"]
       ELSE LET already_elapsed == time_time - Val(clip.start_time) IN
            thr' = [thr EXCEPT
                       ![t].pc = IF n = 1 THEN "window1" ELSE "window2",
                       ![t].collect_time =
                           CollectTime(Val(clip.duration), already_elapsed, lead),
                       ![t].eeg_index = eeg_index,
                       ![t].sum = Float(0),
                       ![t].count = 0,
                       ![t].t0 = time_monotonic,
                       ![t].live_history =
                           IF eeg_live.history = None THEN <<>>
                           ELSE Val(eeg_live.history)]
    /\ UNCHANGED <<decision, timestamp, clips, eeg_status, eeg_live>>
    /\ UNCHANGED ThreadFrame

\* a slip: the lead time is subtracted in window 1 too
ReadClip1WithLead(t) == ReadClip(t, 1, DECISION_LEAD_TIME)

ReadClip1(t) == ReadClip(t, 1, 0)
ReadClip2(t) == ReadClip(t, 2, DECISION_LEAD_TIME)

\* a slip: > for >=
deadline_passed(elapsed, duration_limit) == elapsed > duration_limit

\* if elapsed >= duration_limit: break
deadline_reached(elapsed, duration_limit) == elapsed >= duration_limit

\* a slip: the timeout is not capped by the time left
recv_timeout_fixed(remaining) == RECV_TIMEOUT_CAP

\* sock.settimeout(min(remaining, 1.0))
recv_timeout(remaining) == Min(remaining, RECV_TIMEOUT_CAP)

\* What the loop does with a received datagram: decode it; skip it when it
\* is short or the field does not parse; else add the value to sum and
\* count, append it to the rolling history and publish state["eeg_live"].
\* The collector is at the top of its loop afterwards.
Datagram(t, parts) ==
    LET alpha_val == Decode(parts, thr[t].eeg_index) IN
    IF alpha_val = None
    THEN /\ thr' = [thr EXCEPT ![t].pc = WindowPc(thr[t].pc)]
         /\ UNCHANGED eeg_live
    ELSE LET live_history ==
                 LastN(Append(thr[t].live_history, Val(alpha_val)), HISTORY_LIMIT)
         IN /\ thr' = [thr EXCEPT
                          ![t].pc = WindowPc(thr[t].pc),
                          ![t].sum = FAdd(thr[t].sum, Val(alpha_val)),
                          ![t].count = thr[t].count + 1,
                          ![t].live_history = live_history]
            /\ eeg_live' = LiveData(Val(alpha_val),
                                    LastN(live_history, HISTORY_LIMIT),
                                    eeg_status)

\* One turn of the collector's loop that receives a datagram before the
\* deadline: elapsed < duration_limit, recvfrom returns, the datagram is
\* decoded and either skipped or added to sum and count.  (A turn whose
\* recvfrom times out changes nothing.)
CollectFrame(t, parts) ==
    /\ InWindow(thr[t].pc)
    /\ ~deadline_reached(time_monotonic - thr[t].t0, thr[t].collect_time)
    /\ thr[t].count < MaxSamples
    /\ Datagram(t, parts)
    /\ UNCHANGED <<decision, timestamp, clips, eeg_status>>
    /\ UNCHANGED ThreadFrame

\* The same turn in its steps, for the timing of the receive calls.
\* elapsed < duration_limit: remaining = duration_limit - elapsed,
\* sock.settimeout(min(remaining, 1.0)), and recvfrom blocks
SetTimeout(t) ==
    /\ InWindow(thr[t].pc)
    /\ LET elapsed == time_monotonic - thr[t].t0 IN
       /\ ~deadline_reached(elapsed, thr[t].collect_time)
       /\ thr' = [thr EXCEPT
                     ![t].pc = RecvPc(thr[t].pc),
                     ![t].timeout = recv_timeout(thr[t].collect_time - elapsed),
                     ![t].recv_t0 = time_monotonic]
    /\ UNCHANGED <<decision, timestamp, clips, eeg_status>>
    /\ UNCHANGED <<ThreadFrame, eeg_live>>

\* recvfrom returns a datagram before its timeout
RecvFrom(t, parts) ==
    /\ InRecv(thr[t].pc)
    /\ time_monotonic - thr[t].recv_t0 < thr[t].timeout
    /\ thr[t].count < MaxSamples
    /\ Datagram(t, parts)
    /\ UNCHANGED <<decision, timestamp, clips, eeg_status>>
    /\ UNCHANGED ThreadFrame

\* a slip: the socket has no timeout, recvfrom blocks until a datagram comes
RecvNeverTimesOut(t) ==
    /\ InRecv(thr[t].pc)
    /\ FALSE
    /\ UNCHANGED vars

\* except socket.timeout: continue
RecvTimeout(t) ==
    /\ InRecv(thr[t].pc)
    /\ time_monotonic - thr[t].recv_t0 >= thr[t].timeout
    /\ thr' = [thr EXCEPT ![t].pc = WindowPc(thr[t].pc)]
    /\ UNCHANGED <<decision, timestamp, clips, eeg_status>>
    /\ UNCHANGED <<ThreadFrame, eeg_live>>

\* The turn that finds elapsed >= duration_limit: the collector returns.
\* Window 1: mean1, then the wait for clip 2.  Window 2: mean2, sock.close()
\* and the choice.
WindowReturn(t) ==
    /\ InWindow(thr[t].pc)
    /\ deadline_reached(time_monotonic - thr[t].t0, thr[t].collect_time)
    /\ IF thr[t].pc = "window1"
       THEN thr' = [thr EXCEPT ![t].pc = "wait2",
                               ![t].mean1 = Mean(thr[t].sum, thr[t].count),
                               ![t].n1 = thr[t].count]
       ELSE LET mean2 == Mean(thr[t].sum, thr[t].count) IN
            thr' = [thr EXCEPT ![t].pc = "set_decision",
                               ![t].mean2 = mean2,
                               ![t].n2 = thr[t].count,
                               ![t].choice = Choose(thr[t].mean1, mean2)]
    /\ UNCHANGED <<decision, timestamp, clips, eeg_status>>
    /\ UNCHANGED <<ThreadFrame, eeg_live>>

\* a slip: the thread does not wait for clip 2
WaitClip2NoWait(t) ==
    /\ thr[t].pc = "wait2"
    /\ thr' = [thr EXCEPT ![t].pc = "clip2"]
    /\ UNCHANGED <<decision, timestamp, clips, eeg_status>>
    /\ UNCHANGED <<ThreadFrame, eeg_live>>

\* while not state["clips"][2]["started"]: time.sleep(0.1)
WaitClip2(t) ==
    /\ thr[t].pc = "wait2"
    /\ clips[2].started
    /\ thr' = [thr EXCEPT ![t].pc = "clip2"]
    /\ UNCHANGED <<decision, timestamp, clips, eeg_status>>
    /\ UNCHANGED <<ThreadFrame, eeg_live>>

\* state["decision"] = choice
SetDecision(t) ==
    /\ thr[t].pc = "set_decision"
    /\ decision' = thr[t].choice
    /\ thr' = [thr EXCEPT ![t].pc = "set_timestamp"]
    /\ UNCHANGED <<timestamp, clips, eeg_status>>
    /\ UNCHANGED <<ThreadFrame, eeg_live>>

\* state["timestamp"] = time.time()
SetTimestamp(t) ==
    /\ thr[t].pc = "set_timestamp"
    /\ timestamp' = Some(time_time)
    /\ thr' = [thr EXCEPT ![t].pc = "set_status"]
    /\ UNCHANGED <<decision, clips, eeg_status>>
    /\ UNCHANGED <<ThreadFrame, eeg_live>>

\* state["eeg_status"] = "done"
SetDone(t) ==
    /\ thr[t].pc = "set_status"
    /\ eeg_status' = "done"
    /\ thr' = [thr EXCEPT ![t].pc = "return"]
    /\ UNCHANGED <<decision, timestamp, clips>>
    /\ UNCHANGED <<ThreadFrame, eeg_live>>

\* a slip: the failure is not recorded
SetErrorSilent(t) ==
    /\ thr[t].pc = "except"
    /\ thr' = [thr EXCEPT ![t].pc = "return"]
    /\ UNCHANGED <<decision, timestamp, clips, eeg_status>>
    /\ UNCHANGED <<ThreadFrame, eeg_live>>

\* except Exception: state["eeg_status"] = "error"
SetError(t) ==
    /\ thr[t].pc = "except"
    /\ eeg_status' = "error"
    /\ thr' = [thr EXCEPT ![t].pc = "return"]
    /\ UNCHANGED <<decision, timestamp, clips>>
    /\ UNCHANGED <<ThreadFrame, eeg_live>>

\* the last log line, then eeg_thread_main returns and the thread is dead
Return(t) ==
    /\ thr[t].pc = "return"
    /\ thr' = [thr EXCEPT ![t] = NoFrame("dead")]
    /\ UNCHANGED <<decision, timestamp, clips, eeg_status>>
    /\ UNCHANGED <<ThreadFrame, eeg_live>>

\* ------------------------------------------------------ the specifications
ThreadStep(t) ==
    \/ SetCollecting(t)
    \/ ReadClip1(t)
    \/ WindowReturn(t)
    \/ WaitClip2(t)
    \/ ReadClip2(t)
    \/ SetDecision(t)
    \/ SetTimestamp(t)
    \/ SetDone(t)
    \/ SetError(t)
    \/ Return(t)

\* The session with its collector threads: the reporter, the operator and
\* the EEG device act in any order.  Responses are not looked at.  The clips
\* reported are no longer than the time the session is followed for.
ShortDurations == {Some(d) : d \in 0..MaxTime}

Next ==
    \/ Tick
    \/ \E c \in ClipNums, d \in ShortDurations :
          clip_started(c, d) /\ UNCHANGED <<response, scr>>
    \/ \E c \in Choices : decide(c) /\ UNCHANGED <<response, scr>>
    \/ reset /\ UNCHANGED <<response, scr>>
    \/ \E t \in Threads : ThreadStep(t)
    \/ \E t \in Threads, parts \in SteadyFrames : CollectFrame(t, parts)

Spec == Init /\ [][Next]_vars

\* One session seen by its clients, from start to the next reset: every
\* request is answered, and the last response is kept.  A report may lack
\* its duration.
ApiDurations == ShortDurations \cup {None}

ClipStartedRequest(c, d) ==
    /\ clip_started(c, d)
    /\ response' = [op |-> "clip_started", clip |-> c,
                    code |-> clip_started_status(c, d)]
    /\ UNCHANGED scr

\* The JSON body of a decision: "choice" is a string, is missing, or is
\* something else (a number).
DecideBodies ==
    {[kind |-> "string", text |-> c] : c \in Choices}
        \cup {[kind |-> "missing", text |-> ""], [kind |-> "number", text |-> ""]}

\* data.get("choice", "")
get_choice(body) == IF body.kind = "missing" THEN "" ELSE body.text

\* POST /api/decide answered.  A choice that is no string has no lower():
\* AttributeError, answered 500 with nothing assigned.
DecideRequest(body) ==
    /\ IF body.kind = "number"
       THEN /\ UNCHANGED <<decision, timestamp, clips, eeg_thread, eeg_status,
                           eeg_index, eeg_live, thr, time_time, time_monotonic>>
            /\ response' = [op |-> "decide", body |-> body, code |-> 500]
       ELSE /\ decide(get_choice(body))
            /\ response' = [op |-> "decide", body |-> body,
                            code |-> decide_status(get_choice(body))]
    /\ UNCHANGED scr

\* POST /api/eeg answered; here with a body that is no JSON object
ApiLiveBodies == {NotADict}

LiveRequest(data) ==
    /\ eeg_data(data)
    /\ response' = [op |-> "eeg", code |-> 200]
    /\ UNCHANGED scr

NextApi ==
    \/ Tick
    \/ \E c \in ClipNums, d \in ApiDurations : ClipStartedRequest(c, d)
    \/ \E body \in DecideBodies : DecideRequest(body)
    \/ \E data \in ApiLiveBodies : LiveRequest(data)
    \/ \E t \in Threads : ThreadStep(t)
    \/ \E t \in Threads, parts \in SteadyFrames : CollectFrame(t, parts)

SpecApi == Init /\ [][NextApi]_vars

\* ------------------------------------------------------ eeg.py, by steps
\* Steps of eeg.py leave the server's collectors, clips and clocks alone.
ScriptFrame ==
    <<clips, eeg_thread, eeg_status, eeg_index, eeg_live, thr, time_time,
      time_monotonic, response>>

\* wait_for_clip(n): GET /api/clip-info until the clip is started; returns
\* its duration and start time.  The log line's {duration:.1f} raises
\* TypeError on a record without duration, which ends the process.
wait_for_clip(n) ==
    /\ scr.pc = IF n = 1 THEN "wait1" ELSE "wait2"
    /\ clips[n].started
    /\ IF clips[n].duration = None
       THEN scr' = [scr EXCEPT !.pc = "crashed"]
       ELSE scr' = [scr EXCEPT !.pc = IF n = 1 THEN "clock1" ELSE "clock2",
                               !.video_length = clips[n].duration,
                               !.clip_start = clips[n].start_time]
    /\ UNCHANGED <<decision, timestamp>>
    /\ UNCHANGED ScriptFrame

\* already_elapsed = time.time() - clip_start;
\* collect_time = max(video_length - already_elapsed [- lead], 0);
\* then the entry of collect_alpha: sum, count, t0
ScriptReconcile(n, lead) ==
    /\ scr.pc = IF n = 1 THEN "clock1" ELSE "clock2"
    /\ LET already_elapsed == time_time - Val(scr.clip_start) IN
       scr' = [scr EXCEPT
                  !.pc = IF n = 1 THEN "window1" ELSE "window2",
                  !.collect_time =
                      script_collect_time(Val(scr.video_length), already_elapsed, lead),
                  !.sum = Float(0),
                  !.count = 0,
                  !.t0 = time_monotonic]
    /\ UNCHANGED <<decision, timestamp>>
    /\ UNCHANGED ScriptFrame

ScriptWaitForClip1 == wait_for_clip(1)
ScriptWaitForClip2 == wait_for_clip(2)
ScriptReconcile1 == ScriptReconcile(1, 0)
ScriptReconcile2 == ScriptReconcile(2, SCRIPT_DECISION_LEAD_TIME)

\* eeg.py: if elapsed >= duration_limit: break
script_deadline_reached(elapsed, duration_limit) == elapsed >= duration_limit

\* eeg.py: sock.settimeout(min(remaining, 1.0))
script_recv_timeout(remaining) == Min(remaining, RECV_TIMEOUT_CAP)

\* collect_alpha: what the loop does with a received datagram
ScriptDatagram(parts) ==
    LET alpha_val == Decode(parts, ALPHA_INDEX) IN
    IF alpha_val = None
    THEN scr' = [scr EXCEPT !.pc = WindowPc(scr.pc)]
    ELSE scr' = [scr EXCEPT !.pc = WindowPc(scr.pc),
                            !.sum = FAdd(scr.sum, Val(alpha_val)),
                            !.count = scr.count + 1]

\* collect_alpha: a turn of the loop that receives a datagram in time
ScriptCollectFrame(parts) ==
    /\ InWindow(scr.pc)
    /\ ~script_deadline_reached(time_monotonic - scr.t0, scr.collect_time)
    /\ scr.count < MaxSamples
    /\ ScriptDatagram(parts)
    /\ UNCHANGED <<decision, timestamp>>
    /\ UNCHANGED ScriptFrame

\* the same turn in its steps: settimeout and the blocking recvfrom ...
ScriptSetTimeout ==
    /\ InWindow(scr.pc)
    /\ LET elapsed == time_monotonic - scr.t0 IN
       /\ ~script_deadline_reached(elapsed, scr.collect_time)
       /\ scr' = [scr EXCEPT
                     !.pc = RecvPc(scr.pc),
                     !.timeout = script_recv_timeout(scr.collect_time - elapsed),
                     !.recv_t0 = time_monotonic]
    /\ UNCHANGED <<decision, timestamp>>
    /\ UNCHANGED ScriptFrame

\* ... which returns a datagram before its timeout ...
ScriptRecvFrom(parts) ==
    /\ InRecv(scr.pc)
    /\ time_monotonic - scr.recv_t0 < scr.timeout
    /\ scr.count < MaxSamples
    /\ ScriptDatagram(parts)
    /\ UNCHANGED <<decision, timestamp>>
    /\ UNCHANGED ScriptFrame

\* ... or raises socket.timeout
ScriptRecvTimeout ==
    /\ InRecv(scr.pc)
    /\ time_monotonic - scr.recv_t0 >= scr.timeout
    /\ scr' = [scr EXCEPT !.pc = WindowPc(scr.pc)]
    /\ UNCHANGED <<decision, timestamp>>
    /\ UNCHANGED ScriptFrame

\* collect_alpha returns: mean1; or mean2, sock.close() and the choice
ScriptWindowReturn ==
    /\ InWindow(scr.pc)
    /\ script_deadline_reached(time_monotonic - scr.t0, scr.collect_time)
    /\ IF scr.pc = "window1"
       THEN scr' = [scr EXCEPT !.pc = "wait2",
                               !.mean1 = Mean(scr.sum, scr.count),
                               !.n1 = scr.count]
       ELSE LET mean2 == Mean(scr.sum, scr.count) IN
            scr' = [scr EXCEPT !.pc = "send",
                               !.mean2 = mean2,
                               !.n2 = scr.count,
                               !.choice = script_choose(scr.mean1, mean2)]
    /\ UNCHANGED <<decision, timestamp>>
    /\ UNCHANGED ScriptFrame

\* send_decision(choice): POST /api/decide; a failed request is logged
send_decision(delivered) ==
    /\ scr.pc = "send"
    /\ scr' = [scr EXCEPT !.pc = "done"]
    /\ IF delivered
       THEN decide(scr.choice)
       ELSE UNCHANGED <<decision, timestamp, clips, eeg_thread, eeg_status,
                        eeg_index, eeg_live, thr, time_time, time_monotonic>>
    /\ UNCHANGED response

\* ------------------------------------------------- one coordinator's run
\* One run of a coordinator, the server's thread or eeg.py, over every pair
\* of clip records, every reading of the wall clock and every datagram.  The
\* run starts at its beginning or, with a first mean in hand, at the wait
\* for clip 2.  Clip 1 has been reported; clip 2 is reported during the run.
StartedClips ==
    {[started |-> TRUE, start_time |-> Some(s), duration |-> Some(d)] :
        s \in 0..MaxTime, d \in (0 - 1)..MaxDur}

FirstMeans ==
    {<<NaN, 0>>, <<NaN, 1>>} \cup {<<Mean(Float(v), 1), 1>> : v \in 1..MaxVal}

\* the durations a report of clip 2 carries: any number, a negative one too
ReportDurations == {Some(d) : d \in (0 - 1)..MaxDur}

InitRun ==
    /\ decision = "none"
    /\ timestamp = None
    /\ \E clip1 \in StartedClips : clips = <<clip1, NoClip>>
    /\ eeg_thread = Some(1)
    /\ eeg_index = DEFAULT_EEG_INDEX
    /\ eeg_live = EmptyLive
    /\ time_time \in 0..MaxTime
    /\ time_monotonic = 0
    /\ response = [op |-> "none", code |-> 0]
    /\ \/ \* the server's thread runs; eeg.py does not
          /\ scr = NoScript("off")
          /\ \/ /\ thr = [t \in Threads |->
                            IF t = 1 THEN NoFrame("start") ELSE NoFrame("unborn")]
                /\ eeg_status = "idle"
             \/ /\ \E m \in FirstMeans :
                      thr = [t \in Threads |->
                               IF t = 1
                               THEN [NoFrame("wait2") EXCEPT !.mean1 = m[1], !.n1 = m[2]]
                               ELSE NoFrame("unborn")]
                /\ eeg_status = "collecting"
       \/ \* eeg.py runs; the server's thread has ended on the taken port
          /\ thr = [t \in Threads |->
                      IF t = 1 THEN NoFrame("dead") ELSE NoFrame("unborn")]
          /\ eeg_status = "error"
          /\ \/ scr = NoScript("wait1")
             \/ \E m \in FirstMeans :
                   scr = [NoScript("wait2") EXCEPT !.mean1 = m[1], !.n1 = m[2]]

NextRun ==
    \/ Tick
    \/ ClockStepBack
    \/ \E d \in ReportDurations : clip_started(2, d) /\ UNCHANGED <<response, scr>>
    \/ ThreadStep(1)
    \/ \E parts \in Frames : CollectFrame(1, parts)
    \/ ScriptWaitForClip1
    \/ ScriptReconcile1
    \/ ScriptWaitForClip2
    \/ ScriptReconcile2
    \/ \E parts \in Frames : ScriptCollectFrame(parts)
    \/ ScriptWindowReturn
    \/ \E delivered \in BOOLEAN : send_decision(delivered)

SpecRun == InitRun /\ [][NextRun]_vars

\* ------------------------------------------------- the Windowed Collector
\* The collector's windows with the timing of their receive calls, in the
\* server's thread and in eeg.py, for clips of every length up to MaxLimit,
\* started at time 0, over every datagram.  The live history already holds
\* nothing, or all but one, or all of the values it can hold; a client
\* selects band and channel and posts live data of its own.
WindowClips ==
    {[started |-> TRUE, start_time |-> Some(0), duration |-> Some(d)] :
        d \in (0 - 1)..MaxLimit}

\* a history of n values, 1, 2, ... in arrival order
History(n) == [i \in 1..n |-> Float(i)]

LiveInits ==
    {EmptyLive}
        \cup {LiveData(Float(n), History(n), "collecting") :
                 n \in {HISTORY_LIMIT - 1, HISTORY_LIMIT}}

\* live data posted by a client: a mapping without history, and one whose
\* history is longer than the collector keeps
LiveBodies ==
    {[EmptyLive EXCEPT !.status = "posted"],
     LiveData(Float(0), History(HISTORY_LIMIT + 1), "posted")}

InitWindow ==
    /\ decision = "none"
    /\ timestamp = None
    /\ clips \in [1..2 -> WindowClips]
    /\ eeg_thread = Some(1)
    /\ eeg_index = DEFAULT_EEG_INDEX
    /\ eeg_live \in LiveInits
    /\ time_time = 0
    /\ time_monotonic = 0
    /\ response = [op |-> "none", code |-> 0]
    /\ \/ /\ scr = NoScript("off")
          /\ thr = [t \in Threads |->
                      IF t = 1 THEN NoFrame("start") ELSE NoFrame("unborn")]
          /\ eeg_status = "idle"
       \/ /\ scr = NoScript("wait1")
          /\ thr = [t \in Threads |->
                      IF t = 1 THEN NoFrame("dead") ELSE NoFrame("unborn")]
          /\ eeg_status = "error"

\* Time passes while a collector is blocked in recvfrom, and recvfrom returns
\* no later than its timeout.  What a collector does between two receive
\* calls takes no time at the scale of the ticks.
WindowTick ==
    /\ \/ \E t \in Threads : InRecv(thr[t].pc)
       \/ InRecv(scr.pc)
    /\ \A t \in Threads :
          InRecv(thr[t].pc) => time_monotonic - thr[t].recv_t0 < thr[t].timeout
    /\ InRecv(scr.pc) => time_monotonic - scr.recv_t0 < scr.timeout
    /\ time_monotonic' = time_monotonic + 1
    /\ time_time' = time_time + 1
    /\ UNCHANGED <<decision, timestamp, clips, eeg_thread, eeg_status,
                   eeg_index, eeg_live, thr, response, scr>>

CollectorStep ==
    \/ ThreadStep(1)
    \/ SetTimeout(1)
    \/ RecvTimeout(1)
    \/ ScriptWaitForClip1
    \/ ScriptReconcile1
    \/ ScriptWaitForClip2
    \/ ScriptReconcile2
    \/ ScriptSetTimeout
    \/ ScriptRecvTimeout
    \/ ScriptWindowReturn
    \/ \E delivered \in BOOLEAN : send_decision(delivered)

NextWindow ==
    \/ WindowTick
    \/ CollectorStep
    \/ \E parts \in Frames : RecvFrom(1, parts)
    \/ \E parts \in Frames : ScriptRecvFrom(parts)
    \/ \E band \in Bands, channel \in Channels :
          eeg_config(band, channel) /\ UNCHANGED <<response, scr>>
    \/ \E data \in LiveBodies : eeg_data(data) /\ UNCHANGED <<response, scr>>

\* The collector runs when it can, and the clock does not stand still for
\* ever while datagrams arrive.
SpecWindow ==
    /\ InitWindow
    /\ [][NextWindow]_vars
    /\ WF_vars(CollectorStep)
    /\ SF_vars(WindowTick)

\* ------------------------------------------------------ the whole session
\* One session from the start of the server to its decision: the reporter
\* reports clip 1 and then clip 2, each once and with a duration that is a
\* number; a client selects band and channel; nobody resets, posts a
\* decision or posts live data.  The thread runs its windows with their
\* receive calls, over every datagram.
LiveDurations == {Some(d) : d \in 0..MaxLimit}

ReportClip1 ==
    /\ ~clips[1].started
    /\ \E d \in LiveDurations : clip_started(1, d)
    /\ UNCHANGED <<response, scr>>

ReportClip2 ==
    /\ clips[1].started
    /\ ~clips[2].started
    /\ \E d \in LiveDurations : clip_started(2, d)
    /\ UNCHANGED <<response, scr>>

ThreadRuns ==
    \E t \in Threads : ThreadStep(t) \/ SetTimeout(t) \/ RecvTimeout(t)

NextLive ==
    \/ WindowTick
    \/ ReportClip1
    \/ ReportClip2
    \/ ThreadRuns
    \/ \E t \in Threads, parts \in Frames : RecvFrom(t, parts)
    \/ \E band \in Bands, channel \in Channels :
          eeg_config(band, channel) /\ UNCHANGED <<response, scr>>

\* The thread runs when it can, the clock does not stand still for ever
\* while datagrams arrive, and clip 2 is reported.
SpecLive ==
    /\ Init
    /\ [][NextLive]_vars
    /\ WF_vars(ThreadRuns)
    /\ SF_vars(WindowTick)
    /\ WF_vars(ReportClip2)

\* ================================================================ claims

Alive == {t \in Threads : is_alive(t)}

\* a live collector that state["eeg_thread"] no longer refers to: only a
\* reset drops the reference to a live thread
Orphaned(t) == is_alive(t) /\ eeg_thread # Some(t)

\* the step is a step of thread t
Steps(t) == thr'[t] # thr[t]

\* the collector has assigned the decision
Published(t) == thr[t].pc \in {"set_timestamp", "set_status"}

\* C1: after a reset during collection, the orphaned collector's result is
\* discarded: no step of an orphaned collector makes a decision or timestamp
\* visible.
C1_StaleResultDiscarded ==
    [][\A t \in Threads :
          (Orphaned(t) /\ Steps(t))
              => (decision' = decision /\ timestamp' = timestamp)]_vars

\* C4 (as claimed): between two resets the decision, once set, is never
\* overwritten.
C4_NeverOverwritten ==
    [][(decision # "none" /\ ~reset) => decision' = decision]_vars

\* C4 (amended): once set, the decision is cleared only by reset; any other
\* change of it is a collector's one assignment or an accepted submitted
\* decision; and a collector that has assigned it does not assign it again.
C4_ClearedOnlyByReset ==
    [][/\ (decision # "none" /\ decision' = "none") => reset
       /\ (decision' # decision /\ decision' # "none")
             => \/ \E t \in Threads : SetDecision(t)
                \/ \E c \in Choices : decide(c) /\ decide_status(c) = 200
       /\ \A t \in Threads :
             (Published(t) \/ thr[t].pc = "dead") => thr'[t].pc # "set_decision"
      ]_vars

\* C4 witness: a collector of the current session has published its choice
\* and the decision now holds the other value: it was overwritten, no reset
C4_Overwritten ==
    \E t \in Threads :
        /\ eeg_thread = Some(t)
        /\ Published(t)
        /\ decision # "none"
        /\ decision # thr[t].choice

\* C5: at most one collector thread is alive.
C5_OneCollectorAlive == Cardinality(Alive) <= 1

\* C7: a started Clip Event record is changed by nothing but reset.
C7_ClipEventFrozen ==
    [][\A k \in 1..2 :
          (clips[k].started /\ clips'[k] # clips[k]) => reset]_vars

\* C6: a report of clip 1 with a duration, made while the collector that
\* state["eeg_thread"] refers to is alive, creates no thread and is answered
\* 200.
C6_SecondStartNoOp ==
    [][\A d \in Durations :
          (/\ eeg_thread # None
           /\ is_alive(Val(eeg_thread))
           /\ ClipStartedRequest(1, d))
              => (/\ thr' = thr
                  /\ eeg_thread' = eeg_thread
                  /\ response'.code = 200)]_vars

\* C6 witness: the last request was a clip-1 report answered 200, the first
\* collector is still in window 1, and its window is longer than the record
\* now allows: the record was replaced while it ran
C6_SecondStartSeen ==
    /\ response.op = "clip_started"
    /\ response.clip = 1
    /\ response.code = 200
    /\ eeg_thread = Some(1)
    /\ thr[1].pc = "window1"
    /\ thr[2].pc = "unborn"
    /\ clips[1].duration # None
    /\ thr[1].collect_time > Val(clips[1].duration)

\* C10: a report with a clip index other than 1 and 2 is answered 400 and
\* changes nothing of the session or of the collectors.
C10_BadClipRejected ==
    [][\A c \in ClipNums \ {1, 2}, d \in ApiDurations :
          ClipStartedRequest(c, d)
              => (/\ response'.code = 400
                  /\ UNCHANGED <<decision, timestamp, clips, eeg_thread,
                                 eeg_status, eeg_index, eeg_live, thr>>)]_vars

\* C10 witness: a bad index was answered 400 while a collector is in a
\* window with a sample taken
C10_BadClipSeen ==
    /\ response.op = "clip_started"
    /\ response.clip \notin {1, 2}
    /\ response.code = 400
    /\ \E t \in Threads : thr[t].pc = "window1" /\ thr[t].count > 0

\* ---------------------------------------------- claims on a coordinator run
\* the decision rule as the claim states it
DecisionTable(mean1, mean2) ==
    CASE isnan(mean1) /\ isnan(mean2) -> "calm"
      [] isnan(mean1) /\ ~isnan(mean2) -> "excited"
      [] ~isnan(mean1) /\ isnan(mean2) -> "calm"
      [] ~isnan(mean1) /\ ~isnan(mean2)
            /\ mean1[1] * mean2[2] <= mean2[1] * mean1[2] -> "calm"
      [] ~isnan(mean1) /\ ~isnan(mean2)
            /\ mean1[1] * mean2[2] > mean2[1] * mean1[2] -> "excited"

\* C2: the decision a coordinator publishes is the rule's value on the two
\* window means it computed: both undefined "calm", only mean1 undefined
\* "excited", only mean2 undefined "calm", else "calm" iff mean1 <= mean2;
\* for the server's thread and for eeg.py.
C2_DecisionRule ==
    [][/\ \A t \in Threads :
             SetDecision(t)
                 => decision' = DecisionTable(thr[t].mean1, thr[t].mean2)
       /\ send_decision(TRUE)
             => decision' = DecisionTable(scr.mean1, scr.mean2)]_vars

\* C2 witness: eeg.py has delivered "excited" for two defined means
C2_ScriptExcited ==
    /\ scr.pc = "done"
    /\ decision = "excited"
    /\ ~isnan(scr.mean1)
    /\ ~isnan(scr.mean2)
    /\ scr.n1 > 0
    /\ scr.n2 > 0

\* C3 (as claimed): with no sample accepted in window 1 the thread publishes
\* "excited" whatever window 2 collected.
C3_ExcitedRegardless ==
    [][\A t \in Threads :
          (SetDecision(t) /\ thr[t].n1 = 0) => decision' = "excited"]_vars

\* C3 (amended): with no sample accepted in window 1 the thread publishes
\* "excited" when the mean of window 2 is defined and "calm" when it is not.
C3_ExcitedUnlessBothUndefined ==
    [][\A t \in Threads :
          (SetDecision(t) /\ thr[t].n1 = 0)
              => decision' = IF isnan(thr[t].mean2) THEN "calm" ELSE "excited"]_vars

\* C3 witness: no sample in window 1, one in window 2, "excited" published
C3_EmptyFirstWindowExcited ==
    \E t \in Threads :
        /\ thr[t].pc = "set_timestamp"
        /\ thr[t].n1 = 0
        /\ thr[t].n2 > 0
        /\ ~isnan(thr[t].mean2)
        /\ decision = "excited"

\* what the reconciler is given when it reads clip n now
AlreadyElapsed(n) == time_time - Val(clips[n].start_time)
ClipDuration(n) == Val(clips[n].duration)
Lead(n) == IF n = 1 THEN 0 ELSE DECISION_LEAD_TIME
ScriptAlreadyElapsed == time_time - Val(scr.clip_start)
ScriptLead(n) == IF n = 1 THEN 0 ELSE SCRIPT_DECISION_LEAD_TIME
\* C8: the collection time computed for a window is never negative, in the
\* server's thread and in eeg.py, for window 1 and for window 2.
C8_CollectTimeNotNegative ==
    /\ \A t \in Threads : thr[t].collect_time >= 0
    /\ scr.collect_time >= 0

\* C8 witness: a window 1 longer than the clip, which only a negative
\* already_elapsed gives
C8_NegativeElapsedSeen ==
    /\ thr[1].pc = "window1"
    /\ thr[1].collect_time > ClipDuration(1)
    /\ AlreadyElapsed(1) < 0

\* C9 (as claimed): when already_elapsed is negative or exceeds the clip's
\* duration, the collection time is 0.
C9_ZeroOutsideClip ==
    [][/\ \A t \in Threads, n \in 1..2 :
             (/\ ReadClip(t, n, Lead(n))
              /\ AlreadyElapsed(n) < 0 \/ AlreadyElapsed(n) > ClipDuration(n))
                 => thr'[t].collect_time = 0
       /\ \A n \in 1..2 :
             (/\ ScriptReconcile(n, ScriptLead(n))
              /\ \/ ScriptAlreadyElapsed < 0
                 \/ ScriptAlreadyElapsed > Val(scr.video_length))
                 => scr'.collect_time = 0]_vars

\* C9 (amended): when already_elapsed exceeds the clip's duration the
\* collection time is 0, and a window of length 0 returns with no sample and
\* no error; when already_elapsed is negative the collection time is
\* max(duration - already_elapsed - lead, 0), not 0.
C9_ZeroPastClipEnd ==
    [][/\ \A t \in Threads, n \in 1..2 :
             ReadClip(t, n, Lead(n))
                 => /\ AlreadyElapsed(n) > ClipDuration(n)
                          => (thr'[t].collect_time = 0 /\ InWindow(thr'[t].pc))
                    /\ AlreadyElapsed(n) < 0
                          => thr'[t].collect_time =
                                Max(ClipDuration(n) - AlreadyElapsed(n) - Lead(n), 0)
       /\ \A n \in 1..2 :
             ScriptReconcile(n, ScriptLead(n))
                 => /\ ScriptAlreadyElapsed > Val(scr.video_length)
                          => (scr'.collect_time = 0 /\ InWindow(scr'.pc))
                    /\ ScriptAlreadyElapsed < 0
                          => scr'.collect_time =
                                Max(Val(scr.video_length) - ScriptAlreadyElapsed
                                        - ScriptLead(n), 0)
       /\ \A t \in Threads :
             (InWindow(thr[t].pc) /\ thr[t].collect_time = 0 /\ Steps(t))
                 => (thr'[t].count = 0 /\ thr'[t].pc \in {"wait2", "set_decision"})
       /\ (InWindow(scr.pc) /\ scr.collect_time = 0 /\ scr' # scr)
             => (scr'.count = 0 /\ scr'.pc \in {"wait2", "send"})]_vars

\* C9 witness: clip 2 had ended when the thread read it; window 2 has
\* returned at once with no sample and the thread goes on to publish
C9_LateWindowEmpty ==
    /\ thr[1].pc = "set_decision"
    /\ thr[1].collect_time = 0
    /\ thr[1].t0 = time_monotonic
    /\ thr[1].n2 = 0
    /\ AlreadyElapsed(2) > ClipDuration(2)

\* ------------------------------------------------ claims on submitted decisions
\* C11 (as claimed): a submitted choice is accepted only when it is exactly
\* "calm" or "excited", and the decision is then overwritten with it; any
\* other choice, or a missing one, is answered 400 and leaves decision and
\* timestamp unchanged.
C11_OnlyExactValues ==
    [][\A body \in DecideBodies :
          DecideRequest(body)
              => IF body.kind = "string" /\ body.text \in {"calm", "excited"}
                 THEN decision' = body.text /\ response'.code = 200
                 ELSE /\ response'.code = 400
                      /\ decision' = decision
                      /\ timestamp' = timestamp]_vars

\* C11 (amended): a string choice is accepted in any letter case and the
\* decision is overwritten with its lower-case form and the timestamp with
\* the time of the call; any other string, or a missing choice, is answered
\* 400 and a choice that is no string is answered 500, both leaving decision
\* and timestamp unchanged.
C11_AcceptedInAnyCase ==
    [][\A body \in DecideBodies :
          DecideRequest(body)
              => CASE body.kind = "string" /\ body.text \in {"calm", "CALM"}
                        -> /\ decision' = "calm"
                           /\ timestamp' = Some(time_time)
                           /\ response'.code = 200
                   [] body.kind = "string" /\ body.text = "excited"
                        -> /\ decision' = "excited"
                           /\ timestamp' = Some(time_time)
                           /\ response'.code = 200
                   [] body.kind = "number"
                        -> /\ response'.code = 500
                           /\ decision' = decision
                           /\ timestamp' = timestamp
                   [] OTHER
                        -> /\ response'.code = 400
                           /\ decision' = decision
                           /\ timestamp' = timestamp]_vars

\* C11 witness: "CALM" was submitted over an earlier "excited" and answered
\* 200; the decision reads "calm"
C11_UpperCaseAccepted ==
    /\ response.op = "decide"
    /\ response.body = [kind |-> "string", text |-> "CALM"]
    /\ response.code = 200
    /\ decision = "calm"
    /\ timestamp = Some(1)

\* ------------------------------------------------------- claims on reset
\* C12: a reset made while no collector thread is alive leaves the session
\* in its initial Idle state: neither clip started, no start time, no
\* duration, no decision, no timestamp, no live history, status idle.
C12_ResetRestoresIdle ==
    [][(reset /\ Alive = {})
          => /\ \A k \in 1..2 :
                   /\ ~clips'[k].started
                   /\ clips'[k].start_time = None
                   /\ clips'[k].duration = None
             /\ decision' = "none"
             /\ timestamp' = None
             /\ eeg_live'.history = None
             /\ eeg_live'.value = None
             /\ eeg_status' = "idle"
             /\ Alive' = {}]_vars

\* C12 witness: the one collector of the session has ended, in "done" or in
\* "error", and is dead; after it the session was reset and shows the
\* initial values
C12_ResetAfterRun ==
    /\ thr[1].pc = "dead"
    /\ thr[2].pc = "unborn"
    /\ eeg_thread = None
    /\ eeg_status = "idle"
    /\ decision = "none"
    /\ timestamp = None
    /\ eeg_live = EmptyLive
    /\ clips = [k \in 1..2 |-> NoClip]
    /\ time_monotonic = MaxTime

\* ------------------------------------------- claims on the Windowed Collector
\* inside a window: at the top of the loop or blocked in recvfrom
Collecting(pc) == InWindow(pc) \/ InRecv(pc)

\* C17: the collector always terminates.  Every receive call is given a
\* timeout of at most the cap (1.0 s) and of at most the time left to the
\* deadline, and lasts no longer than its timeout; at the top of its loop
\* with the deadline reached the collector returns, no later than the
\* deadline plus one capped timeout; and every window that was entered is
\* left, whatever arrives; in the server's thread and in eeg.py.
C17_CollectorTerminates ==
    /\ [](\A t \in Threads :
             InRecv(thr[t].pc)
                 => /\ thr[t].timeout <= RECV_TIMEOUT_CAP
                    /\ thr[t].recv_t0 + thr[t].timeout
                           <= thr[t].t0 + thr[t].collect_time
                    /\ time_monotonic - thr[t].recv_t0 <= thr[t].timeout)
    /\ [](InRecv(scr.pc)
             => /\ scr.timeout <= RECV_TIMEOUT_CAP
                /\ scr.recv_t0 + scr.timeout <= scr.t0 + scr.collect_time
                /\ time_monotonic - scr.recv_t0 <= scr.timeout)
    /\ [][/\ \A t \in Threads :
                (/\ InWindow(thr[t].pc)
                 /\ time_monotonic - thr[t].t0 >= thr[t].collect_time
                 /\ Steps(t))
                    => /\ ~Collecting(thr'[t].pc)
                       /\ time_monotonic - thr[t].t0
                              <= Max(thr[t].collect_time, 0) + RECV_TIMEOUT_CAP
          /\ (/\ InWindow(scr.pc)
              /\ time_monotonic - scr.t0 >= scr.collect_time
              /\ scr' # scr)
                 => /\ ~Collecting(scr'.pc)
                    /\ time_monotonic - scr.t0
                           <= Max(scr.collect_time, 0) + RECV_TIMEOUT_CAP]_vars
    /\ \A t \in Threads : Collecting(thr[t].pc) ~> ~Collecting(thr[t].pc)
    /\ Collecting(scr.pc) ~> ~Collecting(scr.pc)

\* C17 witness: a window of three ticks in which nothing was accepted has
\* returned at its deadline, after a receive call of the capped two ticks
\* and one of the tick that was left
C17_SilentWindowReturned ==
    /\ thr[1].pc = "wait2"
    /\ thr[1].collect_time = MaxLimit
    /\ time_monotonic - thr[1].t0 = MaxLimit
    /\ thr[1].n1 = 0
    /\ thr[1].recv_t0 = RECV_TIMEOUT_CAP
    /\ thr[1].timeout = MaxLimit - RECV_TIMEOUT_CAP

\* the frame is short for the index, or its field at the index does not parse
Skipped(parts, index) ==
    \/ Len(parts) <= index
    \/ parts[index + 1] = Garbage

\* C13: a received datagram with no more fields than the index the window
\* reads, or whose field at the index does not parse, leaves the window's
\* sum and count unchanged and the collector goes on; any other datagram
\* adds its value to the sum and exactly one to the count; in the server's
\* thread and in eeg.py.
C13_BadFramesSkipped ==
    [][/\ \A t \in Threads, parts \in Frames :
             RecvFrom(t, parts)
                 => /\ InWindow(thr'[t].pc)
                    /\ IF Skipped(parts, thr[t].eeg_index)
                       THEN /\ thr'[t].sum = thr[t].sum
                            /\ thr'[t].count = thr[t].count
                       ELSE /\ thr'[t].sum =
                                   FAdd(thr[t].sum, parts[thr[t].eeg_index + 1])
                            /\ thr'[t].count = thr[t].count + 1
       /\ \A parts \in Frames :
             ScriptRecvFrom(parts)
                 => /\ InWindow(scr'.pc)
                    /\ IF Skipped(parts, ALPHA_INDEX)
                       THEN /\ scr'.sum = scr.sum
                            /\ scr'.count = scr.count
                       ELSE /\ scr'.sum = FAdd(scr.sum, parts[ALPHA_INDEX + 1])
                            /\ scr'.count = scr.count + 1]_vars

\* C13 witness: in window 1 a receive call has returned before its timeout
\* and the collector is back at the top of its loop with nothing counted: the
\* datagram was skipped
C13_FrameSkipped ==
    /\ thr[1].pc = "window1"
    /\ thr[1].timeout > 0
    /\ time_monotonic - thr[1].recv_t0 < thr[1].timeout
    /\ thr[1].count = 0
    /\ thr[1].sum = Float(0)

\* C18: a collector entered with a deadline D <= 0 returns at once with sum 0
\* and count 0: it is never blocked in a receive call, its only step is the
\* return, taken at the time the window began, and the step leaves the live
\* data alone; in the server's thread and in eeg.py.
C18_EmptyWindowReturnsAtOnce ==
    /\ [](\A t \in Threads :
             (Collecting(thr[t].pc) /\ thr[t].collect_time <= 0)
                 => /\ InWindow(thr[t].pc)
                    /\ thr[t].sum = Float(0)
                    /\ thr[t].count = 0
                    /\ time_monotonic = thr[t].t0)
    /\ []((Collecting(scr.pc) /\ scr.collect_time <= 0)
             => /\ InWindow(scr.pc)
                /\ scr.sum = Float(0)
                /\ scr.count = 0
                /\ time_monotonic = scr.t0)
    /\ [][/\ \A t \in Threads :
                (Collecting(thr[t].pc) /\ thr[t].collect_time <= 0 /\ Steps(t))
                    => /\ thr'[t].pc \in {"wait2", "set_decision"}
                       /\ thr'[t].pc = "wait2"
                             => (thr'[t].n1 = 0 /\ isnan(thr'[t].mean1))
                       /\ thr'[t].pc = "set_decision"
                             => (thr'[t].n2 = 0 /\ isnan(thr'[t].mean2))
                       /\ eeg_live' = eeg_live
          /\ (Collecting(scr.pc) /\ scr.collect_time <= 0 /\ scr' # scr)
                 => /\ scr'.pc \in {"wait2", "send"}
                    /\ scr'.pc = "wait2" => (scr'.n1 = 0 /\ isnan(scr'.mean1))
                    /\ scr'.pc = "send" => (scr'.n2 = 0 /\ isnan(scr'.mean2))]_vars

\* C18 witness: window 1 was entered with deadline 0 over a full live
\* history and has returned: no sample, no receive call made, the live data
\* as it was
C18_EmptyWindowReturned ==
    /\ thr[1].pc = "wait2"
    /\ thr[1].collect_time = 0
    /\ thr[1].n1 = 0
    /\ thr[1].timeout = 0
    /\ eeg_live \in LiveInits
    /\ eeg_live.history = Some(thr[1].live_history)
    /\ Len(thr[1].live_history) = HISTORY_LIMIT

\* C19: the live history the collector publishes is bounded and rolling.  In
\* every state a history that was not posted by a client has at most 80
\* values; and when the collector accepts a value, the history it publishes
\* has at most 80 values, ends with that value, and before it holds the
\* latest values of the history the window had, in their order.
C19_HistoryBounded ==
    /\ []((eeg_live.history # None /\ eeg_live.status # "posted")
             => Len(Val(eeg_live.history)) <= HISTORY_LIMIT)
    /\ [][\A t \in Threads :
             (Steps(t) /\ thr'[t].count = thr[t].count + 1)
                 => LET old == thr[t].live_history
                        new == Val(eeg_live'.history)
                        dropped == Len(old) + 1 - Len(new)
                    IN /\ Len(new) = Min(Len(old) + 1, HISTORY_LIMIT)
                       /\ Some(new[Len(new)]) = eeg_live'.value
                       /\ thr'[t].sum = FAdd(thr[t].sum, new[Len(new)])
                       /\ \A i \in 1..(Len(new) - 1) : new[i] = old[i + dropped]
                       /\ thr'[t].live_history = new]_vars

\* C19 witness: over a full history 1, 2, ..., 80 the collector has accepted
\* one more value: the history published has 80 values, 2, ..., 80 and the
\* new one
C19_OldestDropped ==
    /\ thr[1].count = 1
    /\ eeg_live.status = "collecting"
    /\ eeg_live.history # None
    /\ LET h == Val(eeg_live.history) IN
          /\ Len(h) = HISTORY_LIMIT
          /\ h[1] = Float(2)
          /\ h[HISTORY_LIMIT - 1] = Float(HISTORY_LIMIT)
          /\ Some(h[HISTORY_LIMIT]) = eeg_live.value
          /\ h = thr[1].live_history

\* ------------------------------------------------- claims on failures
\* what makes the read of clip n and the entry of its window raise
ReadFails(n) ==
    \/ clips[n].start_time = None
    \/ clips[n].duration = None
    \/ ~eeg_live.is_dict

\* C16: a failure in the collector thread (socket setup, a clip record
\* without start time or duration, live data that is no mapping) takes the
\* thread to its handler, which sets the status to "error" and assigns
\* neither decision nor timestamp; the thread then ends and stays dead; no
\* thread is created but by a report of clip 1; and the handlers stay enabled.
C16_FailureEndsInError ==
    /\ [][\A t \in Threads :
             /\ (thr[t].pc = "start" /\ Steps(t))
                    => thr'[t].pc \in {"clip1", "except"}
             /\ (thr[t].pc = "clip1" /\ Steps(t) /\ ReadFails(1))
                    => thr'[t].pc = "except"
             /\ (thr[t].pc = "clip2" /\ Steps(t) /\ ReadFails(2))
                    => thr'[t].pc = "except"
             /\ (thr[t].pc = "except" /\ Steps(t))
                    => /\ eeg_status' = "error"
                       /\ decision' = decision
                       /\ timestamp' = timestamp
                       /\ thr'[t].pc = "return"
             /\ (thr[t].pc = "return" /\ Steps(t))
                    => /\ thr'[t].pc = "dead"
                       /\ UNCHANGED <<decision, timestamp, eeg_status>>
             /\ thr[t].pc = "dead" => thr'[t].pc = "dead"
             /\ (thr[t].pc = "unborn" /\ Steps(t))
                    => /\ thr'[t].pc = "start"
                       /\ \E d \in ApiDurations : ClipStartedRequest(1, d)]_vars
    /\ [](eeg_status = "error"
             => /\ ENABLED DecideRequest([kind |-> "string", text |-> "calm"])
                /\ ENABLED ClipStartedRequest(2, Some(0)))

\* C16 witness: the first thread has failed and is dead, the status reads
\* "error" and nothing was published, with live data that is no mapping; a
\* report of clip 1 made after that was answered 200 and has started a
\* second thread
C16_FailedThenRestartedByReport ==
    /\ thr[1].pc = "dead"
    /\ thr[2].pc = "start"
    /\ eeg_status = "error"
    /\ ~eeg_live.is_dict
    /\ decision = "none"
    /\ timestamp = None
    /\ response.op = "clip_started"
    /\ response.code = 200

\* ------------------------------------------------ claims on the phases
\* the steps a coordinator's position can take, in the server's thread ...
ThreadOrder ==
    {<<"unborn", "start">>,
     <<"start", "clip1">>, <<"start", "except">>,
     <<"clip1", "window1">>, <<"clip1", "except">>,
     <<"window1", "wait2">>,
     <<"wait2", "clip2">>,
     <<"clip2", "window2">>, <<"clip2", "except">>,
     <<"window2", "set_decision">>,
     <<"set_decision", "set_timestamp">>,
     <<"set_timestamp", "set_status">>,
     <<"set_status", "return">>,
     <<"except", "return">>,
     <<"return", "dead">>}

\* ... and in eeg.py
ScriptOrder ==
    {<<"wait1", "clock1">>, <<"wait1", "crashed">>,
     <<"clock1", "window1">>,
     <<"window1", "wait2">>,
     <<"wait2", "clock2">>, <<"wait2", "crashed">>,
     <<"clock2", "window2">>,
     <<"window2", "send">>,
     <<"send", "done">>}

\* C14: a coordinator goes through its phases in order: window 1, the wait
\* for clip 2, window 2, the decision.  It leaves the wait for clip 2 only
\* when clip 2 is recorded as started, so window 2 never begins before that;
\* and it assigns or sends the decision only after window 2 has returned,
\* with the choice made from the two means; in the server's thread and in
\* eeg.py.
C14_PhasesInOrder ==
    [][/\ \A t \in Threads :
             /\ thr'[t].pc # thr[t].pc
                    => <<thr[t].pc, thr'[t].pc>> \in ThreadOrder
             /\ (thr[t].pc = "wait2" /\ Steps(t)) => clips[2].started
             /\ (Steps(t) /\ decision' # decision)
                    => /\ thr[t].pc = "set_decision"
                       /\ decision' = thr[t].choice
             /\ thr'[t].pc = "set_decision"
                    => thr'[t].choice \in {"calm", "excited"}
       /\ scr'.pc # scr.pc => <<scr.pc, scr'.pc>> \in ScriptOrder
       /\ (scr.pc = "wait2" /\ scr' # scr) => clips[2].started
       /\ (scr' # scr /\ decision' # decision)
             => (scr.pc = "send" /\ decision' = scr.choice)]_vars

\* C14 witness: the thread, which began its run before clip 2 was reported,
\* is collecting in window 2 with a sample of window 1 in hand
C14_SecondWindowAfterReport ==
    /\ thr[1].pc = "window2"
    /\ thr[1].n1 = 1
    /\ thr[1].count = 1
    /\ clips[2].started

\* C15: the lead time is subtracted for window 2 only.  Window 1 collects
\* for max(duration1 - (now - start1), 0) and window 2 for
\* max(duration2 - (now - start2) - L, 0), with now the wall clock when the
\* coordinator reads the clip and L the lead time; in the server's thread
\* and in eeg.py.
C15_LeadOnlyInSecondWindow ==
    [][/\ \A t \in Threads :
             /\ ReadClip1(t)
                    => /\ thr'[t].pc = "window1"
                       /\ thr'[t].collect_time =
                              Max(ClipDuration(1) - (time_time - Val(clips[1].start_time)), 0)
             /\ ReadClip2(t)
                    => /\ thr'[t].pc = "window2"
                       /\ thr'[t].collect_time =
                              Max(ClipDuration(2) - (time_time - Val(clips[2].start_time))
                                      - DECISION_LEAD_TIME, 0)
       /\ ScriptReconcile1
             => /\ scr'.pc = "window1"
                /\ scr'.collect_time =
                       Max(Val(scr.video_length) - (time_time - Val(scr.clip_start)), 0)
       /\ ScriptReconcile2
             => /\ scr'.pc = "window2"
                /\ scr'.collect_time =
                       Max(Val(scr.video_length) - (time_time - Val(scr.clip_start))
                               - SCRIPT_DECISION_LEAD_TIME, 0)]_vars

\* C15 witness: the thread has just entered window 2 of a clip of two ticks
\* started one tick ago: it collects for 2 - 1 - L = 0 ticks, where window 1
\* would have collected for one
C15_SecondWindowShortened ==
    /\ thr[1].pc = "window2"
    /\ thr[1].t0 = time_monotonic
    /\ ClipDuration(2) = 2
    /\ AlreadyElapsed(2) = 1
    /\ thr[1].collect_time = 0

\* ------------------------------------------------ claims on the whole session
Decided == decision \in {"calm", "excited"} /\ eeg_status = "done"

\* C20: in a session where clip 1 and later clip 2 are reported with
\* durations that are numbers, without reset, once the thread has set up its
\* socket it eventually publishes its choice: the decision is "calm" or
\* "excited" and the status is "done", and stays so.
C20_EventuallyDecided ==
    /\ \A t \in Threads : (thr[t].pc = "clip1") ~> Decided
    /\ [][Decided => Decided']_vars

\* C20 witness: the thread has published "excited" after two windows that
\* both had samples, and the status is "done"
C20_DecidedAfterTwoWindows ==
    /\ Decided
    /\ decision = "excited"
    /\ thr[1].pc = "return"
    /\ thr[1].n1 > 0
    /\ thr[1].n2 > 0

\* ------------------------------------------- claims on decision and timestamp
\* C21: in every state a query of the decision can observe, the decision is
\* "none" exactly when the timestamp is None, and whenever the status is
\* "done" the decision is not "none"; under every interleaving of the
\* thread's publication steps with reset, submitted decisions and queries.
C21_PairedAndConsistent ==
    /\ (decision = "none") <=> (timestamp = None)
    /\ eeg_status = "done" => decision # "none"

====
